---------------------------- MODULE Spec2Model ----------------------------
(***************************************************************************)
(* Model of scripts/generate-report.py: the three scanner adapters, the    *)
(* result collector, the aggregator, the recommendation engine, the two    *)
(* renderers and main.                                                     *)
(*                                                                         *)
(* Python values are modelled as follows.                                  *)
(*   str        a tuple of one-character strings ("HIGH" is                *)
(*              <<"H","I","G","H">>), so that lower(), upper(), "in",      *)
(*              stem and the glob patterns are computed, not assumed       *)
(*   float      an integer number of tenths (9.0 is 90)                    *)
(*   dict       a function whose DOMAIN is the key set                     *)
(*   list       a sequence                                                 *)
(*   a JSON field of loose type: a record saying which type it has         *)
(***************************************************************************)
EXTENDS Integers, Sequences, FiniteSets, TLC

VARIABLES
    input_dir,      \* the directory given to ReportGenerator: exists, files
    scan_results,   \* ReportGenerator.scan_results
    origin,         \* history: origin[i] is the path of the file scan_results[i] came from
    visited,        \* the <<glob, path>> pairs the three rglob loops have yielded
    stderr,         \* the diagnostics printed to sys.stderr, in order
    report,         \* the SecurityReport main holds (built = FALSE before generate_report)
    emitted,        \* what main printed or wrote to --output-file: the rendered report
    pc              \* main's position

vars == <<input_dir, scan_results, origin, visited, stderr, report, emitted, pc>>

(***************************************************************************)
(* Strings                                                                 *)
(***************************************************************************)
Uppers == <<"A","B","C","D","E","F","G","H","I","J","K","L","M",
            "N","O","P","Q","R","S","T","U","V","W","X","Y","Z">>
Lowers == <<"a","b","c","d","e","f","g","h","i","j","k","l","m",
            "n","o","p","q","r","s","t","u","v","w","x","y","z">>

LowerChar(c) ==
    IF \E i \in 1..26 : Uppers[i] = c
    THEN Lowers[CHOOSE i \in 1..26 : Uppers[i] = c]
    ELSE c

UpperChar(c) ==
    IF \E i \in 1..26 : Lowers[i] = c
    THEN Uppers[CHOOSE i \in 1..26 : Lowers[i] = c]
    ELSE c

\* str.lower()
Lower(s) == [i \in 1..Len(s) |-> LowerChar(s[i])]

\* str.upper()
Upper(s) == [i \in 1..Len(s) |-> UpperChar(s[i])]

\* sub in s
Contains(s, sub) ==
    \E i \in 0..(Len(s) - Len(sub)) : SubSeq(s, i + 1, i + Len(sub)) = sub

StartsWith(s, p) == Len(s) >= Len(p) /\ SubSeq(s, 1, Len(p)) = p

EndsWith(s, p) == Len(s) >= Len(p) /\ SubSeq(s, Len(s) - Len(p) + 1, Len(s)) = p

\* the literals of the program
sCRITICAL == <<"C","R","I","T","I","C","A","L">>
sHIGH == <<"H","I","G","H">>
sMEDIUM == <<"M","E","D","I","U","M">>
sLOW == <<"L","O","W">>
sINFO == <<"I","N","F","O">>
sUNKNOWN == <<"U","N","K","N","O","W","N">>
sError == <<"e","r","r","o","r">>
sWarning == <<"w","a","r","n","i","n","g">>
sNote == <<"n","o","t","e">>
sCritical == <<"c","r","i","t","i","c","a","l">>
sHigh == <<"h","i","g","h">>
sModerate == <<"m","o","d","e","r","a","t","e">>
sLow == <<"l","o","w">>
sSemgrep == <<"s","e","m","g","r","e","p">>
sNpmAudit == <<"n","p","m","-","a","u","d","i","t">>
sTrivyDash == <<"t","r","i","v","y","-">>
sTrivy == <<"t","r","i","v","y">>
sDotSarif == <<".","s","a","r","i","f">>
sDotJson == <<".","j","s","o","n">>
sPackageJson == <<"p","a","c","k","a","g","e",".","j","s","o","n">>
sUpdate == <<"U","p","d","a","t","e"," ">>
sTo == <<" ","t","o"," ">>
sNA == <<"N","/","A">>

SEVERITY_ORDER == <<sCRITICAL, sHIGH, sMEDIUM, sLOW, sINFO>>

(***************************************************************************)
(* Paths (pathlib)                                                         *)
(***************************************************************************)
\* index of the last "." of a file name that is not its first character, 0 if none
LastDot(name) ==
    LET ds == {i \in 2..Len(name) : name[i] = "."}
    IN IF ds = {} THEN 0 ELSE CHOOSE i \in ds : \A j \in ds : j <= i

\* Path.suffix
Suffix(name) == IF LastDot(name) = 0 THEN <<>> ELSE SubSeq(name, LastDot(name), Len(name))

\* Path.stem
Stem(name) == IF LastDot(name) = 0 THEN name ELSE SubSeq(name, 1, LastDot(name) - 1)

\* rglob('*.sarif')
MatchSarif(name) == EndsWith(name, sDotSarif)

\* rglob('npm-audit.json')
MatchNpm(name) == name = sNpmAudit \o sDotJson

\* rglob('trivy*.json')
MatchTrivy(name) ==
    /\ StartsWith(name, sTrivy)
    /\ EndsWith(name, sDotJson)
    /\ Len(name) >= Len(sTrivy) + Len(sDotJson)

(***************************************************************************)
(* dict helpers                                                            *)
(***************************************************************************)
EmptyDict == <<>>

\* d.get(k, 0)
Get(d, k) == IF k \in DOMAIN d THEN d[k] ELSE 0

\* d[k] += n on a defaultdict(int)
Add(d, k, n) ==
    IF k \in DOMAIN d THEN [d EXCEPT ![k] = @ + n]
    ELSE [x \in (DOMAIN d) \cup {k} |-> IF x = k THEN n ELSE d[x]]

(***************************************************************************)
(* Vulnerability (the fields the collector, the recommender and the        *)
(* Markdown renderer read: id, severity, file_path, remediation).          *)
(* remediation is the one field that reaches the renderer with a loose     *)
(* type: isStr = FALSE stands for a JSON number other than 0.              *)
(***************************************************************************)
Text(t) == [isStr |-> TRUE, text |-> t]
NonStr == [isStr |-> FALSE, text |-> <<>>]

\* bool(x) of a field value
Truthy(x) == IF x.isStr THEN x.text # <<>> ELSE TRUE

Vulnerability(id, severity, file_path, remediation) ==
    [id |-> id, severity |-> severity, file_path |-> file_path, remediation |-> remediation]

Ok(vulns) == [vulns |-> vulns, error |-> FALSE]
Raised(vulns) == [vulns |-> vulns, error |-> TRUE]

(***************************************************************************)
(* parse_sarif                                                             *)
(***************************************************************************)
NoScore == [present |-> FALSE, numeric |-> FALSE, tenths |-> 0]
NoRule == [hasId |-> FALSE, id |-> 0, sec |-> NoScore, help |-> Text(<<>>)]

\* rules = {r['id']: r for r in ...}: a later rule of the same id replaces an earlier one
RulesGet(rules, rule_id) ==
    LET hits == {i \in 1..Len(rules) : rules[i].id = rule_id}
    IN IF hits = {} THEN NoRule
       ELSE rules[CHOOSE i \in hits : \A j \in hits : j <= i]

\* severity_map.get(level, 'MEDIUM')
SarifLevelSeverity(level) ==
    CASE level = sError -> sHIGH
      [] level = sWarning -> sMEDIUM
      [] level = sNote -> sLOW
      [] OTHER -> sMEDIUM

ScoreSeverityOff(score) ==
    IF score > 90 THEN sCRITICAL
    ELSE IF score >= 70 THEN sHIGH
    ELSE IF score >= 40 THEN sMEDIUM
    ELSE sLOW

\* the if/elif chain on score
ScoreSeverity(score) ==
    IF score >= 90 THEN sCRITICAL
    ELSE IF score >= 70 THEN sHIGH
    ELSE IF score >= 40 THEN sMEDIUM
    ELSE sLOW

\* the severity of one result, given its rule (score numeric when present)
SarifSeverity(result, rule) ==
    LET level == IF result.level.present THEN result.level.text ELSE sWarning
        severity == SarifLevelSeverity(level)
    IN IF rule.sec.present THEN ScoreSeverity(rule.sec.tenths) ELSE severity

RECURSIVE SarifResults(_, _, _)
\* the loop over run['results']; an exception leaves the loop with what was appended
SarifResults(rules, results, acc) ==
    IF results = <<>> THEN Ok(acc)
    ELSE LET result == Head(results)
             rule == RulesGet(rules, result.ruleId)
         IN IF ~result.isDict THEN Raised(acc)
            ELSE IF rule.sec.present /\ ~rule.sec.numeric THEN Raised(acc)
            ELSE SarifResults(rules, Tail(results),
                     Append(acc, Vulnerability(result.ruleId, SarifSeverity(result, rule),
                                               result.uri, rule.help)))

RECURSIVE SarifRuns(_, _)
\* the loop over data['runs']
SarifRuns(runs, acc) ==
    IF runs = <<>> THEN Ok(acc)
    ELSE LET run == Head(runs)
         IN IF \E i \in 1..Len(run.rules) : ~run.rules[i].hasId THEN Raised(acc)
            ELSE LET r == SarifResults(run.rules, run.results, acc)
                 IN IF r.error THEN r ELSE SarifRuns(Tail(runs), r.vulns)

parse_sarif(doc) ==
    IF ~doc.decodable THEN Raised(<<>>) ELSE SarifRuns(doc.runs, <<>>)

(***************************************************************************)
(* parse_npm_audit                                                         *)
(***************************************************************************)
\* severity_map.get(vuln_data.get('severity', ''), 'MEDIUM'), the key hashable
NpmSeverity(sev) ==
    CASE sev.kind = "str" /\ sev.text = sCritical -> sCRITICAL
      [] sev.kind = "str" /\ sev.text = sHigh -> sHIGH
      [] sev.kind = "str" /\ sev.text = sModerate -> sMEDIUM
      [] sev.kind = "str" /\ sev.text = sLow -> sLOW
      [] OTHER -> sMEDIUM

\* fixAvailable.get('name', '') if fixAvailable is a dict, else ''
NpmRemediation(fix) == IF fix.isDict THEN fix.name ELSE Text(<<>>)

RECURSIVE NpmItems(_, _)
\* the loop over data['vulnerabilities'].items()
NpmItems(items, acc) ==
    IF items = <<>> THEN Ok(acc)
    ELSE LET vuln_data == Head(items)
         IN IF ~vuln_data.isDict THEN Raised(acc)
            ELSE IF vuln_data.severity.kind = "list" THEN Raised(acc)
            ELSE NpmItems(Tail(items),
                     Append(acc, Vulnerability(vuln_data.id, NpmSeverity(vuln_data.severity),
                                               sPackageJson, NpmRemediation(vuln_data.fix))))

parse_npm_audit(doc) ==
    IF ~doc.decodable THEN Raised(<<>>) ELSE NpmItems(doc.advisories, <<>>)

(***************************************************************************)
(* parse_trivy_json                                                        *)
(***************************************************************************)
\* vuln_data.get('Severity', 'UNKNOWN').upper(), the value a str
TrivySeverity(sev) == Upper(IF sev.kind = "absent" THEN sUNKNOWN ELSE sev.text)

\* f"Update {PkgName} to {FixedVersion, 'N/A' when absent}"
TrivyRemediation(v) ==
    Text(sUpdate \o v.pkg \o sTo \o (IF v.fixed.present THEN v.fixed.text ELSE sNA))

RECURSIVE TrivyVulns(_, _, _)
\* the loop over result['Vulnerabilities']
TrivyVulns(target, entries, acc) ==
    IF entries = <<>> THEN Ok(acc)
    ELSE LET vuln_data == Head(entries)
         IN IF ~vuln_data.isDict THEN Raised(acc)
            ELSE IF vuln_data.severity.kind = "num" THEN Raised(acc)
            ELSE TrivyVulns(target, Tail(entries),
                     Append(acc, Vulnerability(vuln_data.id, TrivySeverity(vuln_data.severity),
                                               target, TrivyRemediation(vuln_data))))

RECURSIVE TrivyResults(_, _)
\* the loop over data['Results']
TrivyResults(results, acc) ==
    IF results = <<>> THEN Ok(acc)
    ELSE LET r == TrivyVulns(Head(results).target, Head(results).vulns, acc)
         IN IF r.error THEN r ELSE TrivyResults(Tail(results), r.vulns)

parse_trivy_json(doc) ==
    IF ~doc.decodable THEN Raised(<<>>) ELSE TrivyResults(doc.results, <<>>)

(***************************************************************************)
(* collect_results                                                         *)
(***************************************************************************)
RECURSIVE Summary(_)
SummaryFlags(vulns) ==
    [s \in {vulns[i].severity : i \in 1..Len(vulns)} |-> 1]

\* summary = defaultdict(int); for v in vulns: summary[v.severity] += 1
Summary(vulns) ==
    IF vulns = <<>> THEN EmptyDict
    ELSE Add(Summary(SubSeq(vulns, 1, Len(vulns) - 1)), vulns[Len(vulns)].severity, 1)

ScanResult(scanner, vulns) ==
    [scanner |-> scanner, vulnerabilities |-> vulns, summary |-> Summary(vulns)]

AppendAlways(results, scanner, vulns) == Append(results, ScanResult(scanner, vulns))

\* if vulns: self.scan_results.append(ScanResult(...))
AppendIfAny(results, scanner, vulns) ==
    IF vulns # <<>> THEN Append(results, ScanResult(scanner, vulns)) ELSE results

\* the files an rglob loop has still to yield
Left(glob) == {f \in input_dir.files : <<glob, f.path>> \notin visited}
LeftSarif == {f \in Left("sarif") : MatchSarif(f.path.name)}
LeftNpm == {f \in Left("npm") : MatchNpm(f.path.name)}
LeftTrivy == {f \in Left("trivy") : MatchTrivy(f.path.name)}

Diagnostic(msg, path) == [msg |-> msg, path |-> path]
NoPath == [dir |-> "", name |-> <<>>]

\* what one loop iteration does with the adapter's return value
Collected(glob, f, scanner, r, msg) ==
    /\ scan_results' = AppendIfAny(scan_results, scanner, r.vulns)
    /\ origin' = IF Len(scan_results') > Len(scan_results)
                 THEN Append(origin, f.path) ELSE origin
    /\ stderr' = IF r.error THEN Append(stderr, Diagnostic(msg, f.path)) ELSE stderr
    /\ visited' = visited \cup {<<glob, f.path>>}
    /\ UNCHANGED <<input_dir, report, emitted, pc>>

\* collect_results, up to the first loop
CollectEnter ==
    /\ pc = "main"
    /\ IF input_dir.exists
       THEN pc' = "collect" /\ stderr' = stderr
       ELSE /\ pc' = "collected"
            /\ stderr' = Append(stderr, Diagnostic("Input directory does not exist", NoPath))
    /\ UNCHANGED <<input_dir, scan_results, origin, visited, report, emitted>>

\* one iteration of: for sarif_file in self.input_dir.rglob('*.sarif')
CollectSarif ==
    /\ pc = "collect"
    /\ \E f \in LeftSarif :
         Collected("sarif", f, Stem(f.path.name), parse_sarif(f.doc), "Error parsing SARIF")

\* one iteration of: for npm_file in self.input_dir.rglob('npm-audit.json')
CollectNpm ==
    /\ pc = "collect"
    /\ LeftSarif = {}
    /\ \E f \in LeftNpm :
         Collected("npm", f, sNpmAudit, parse_npm_audit(f.doc), "Error parsing npm audit")

\* one iteration of: for trivy_file in self.input_dir.rglob('trivy*.json')
CollectTrivy ==
    /\ pc = "collect"
    /\ LeftSarif = {}
    /\ LeftNpm = {}
    /\ \E f \in LeftTrivy :
         IF Suffix(f.path.name) = sDotJson
         THEN Collected("trivy", f, sTrivyDash \o Stem(f.path.name),
                        parse_trivy_json(f.doc), "Error parsing Trivy")
         ELSE /\ visited' = visited \cup {<<"trivy", f.path>>}
              /\ UNCHANGED <<input_dir, scan_results, origin, stderr, report, emitted, pc>>

\* the last loop is exhausted: collect_results returns
CollectReturn ==
    /\ pc = "collect"
    /\ LeftSarif = {}
    /\ LeftNpm = {}
    /\ LeftTrivy = {}
    /\ pc' = "collected"
    /\ UNCHANGED <<input_dir, scan_results, origin, visited, stderr, report, emitted>>

(***************************************************************************)
(* generate_report and _generate_recommendations                           *)
(***************************************************************************)
RECURSIVE AddItems(_, _, _)
\* for severity, count in result.summary.items(): total[severity] += count
AddItems(total, summary, keys) ==
    IF keys = {} THEN total
    ELSE LET k == CHOOSE x \in keys : TRUE
         IN AddItems(Add(total, k, summary[k]), summary, keys \ {k})

RECURSIVE TotalFrom(_, _)
TotalFrom(total, results) ==
    IF results = <<>> THEN total
    ELSE TotalFrom(AddItems(total, Head(results).summary, DOMAIN Head(results).summary),
                   Tail(results))

TotalOfLast(results) ==
    IF results = <<>> THEN EmptyDict ELSE results[Len(results)].summary

\* total = defaultdict(int), filled by the loop over self.scan_results
TotalVulnerabilities(results) == TotalFrom(EmptyDict, results)

RECURSIVE SumOf(_, _)
\* sum(r.summary.get(severity, 0) for r in self.scan_results)
SumOf(results, severity) ==
    IF results = <<>> THEN 0
    ELSE Get(Head(results).summary, severity) + SumOf(Tail(results), severity)

AnySemgrepExact(results) ==
    \E i \in 1..Len(results) : Contains(results[i].scanner, sSemgrep)

\* any('semgrep' in s.lower() for s in scanners)
AnySemgrep(results) ==
    \E i \in 1..Len(results) : Contains(Lower(results[i].scanner), sSemgrep)

Recommendation(rule, count) == [rule |-> rule, count |-> count]

Recommendations(results) ==
    LET total_critical == SumOf(results, sCRITICAL)
        total_high == SumOf(results, sHIGH)
        r1 == IF total_critical > 0
              THEN <<Recommendation("critical", total_critical)>> ELSE <<>>
        r2 == IF total_high > 0
              THEN Append(r1, Recommendation("high", total_high)) ELSE r1
        r3 == IF ~AnySemgrep(results)
              THEN Append(r2, Recommendation("enable-sast", 0)) ELSE r2
    IN IF r3 = <<>> THEN <<Recommendation("none-found", 0)>> ELSE r3

NoReport ==
    [built |-> FALSE, scan_results |-> <<>>, total_vulnerabilities |-> EmptyDict,
     recommendations |-> <<>>]

SecurityReport(results) ==
    [built |-> TRUE, scan_results |-> results,
     total_vulnerabilities |-> TotalVulnerabilities(results),
     recommendations |-> Recommendations(results)]

(***************************************************************************)
(* output_markdown: the lines of the document, each a record               *)
(*   [kind, text, n]; kind "row" is a row of the summary table, "group" a  *)
(*   "#### severity (n)" header, "item" a finding (n its id), "more" the   *)
(*   "...and n more" line.                                                 *)
(***************************************************************************)
ListLimit == 10

Line(kind, text, n) == [kind |-> kind, text |-> text, n |-> n]

Min(a, b) == IF a <= b THEN a ELSE b

\* by_severity[severity]
Group(vulns, severity) == SelectSeq(vulns, LAMBDA v : v.severity = severity)

ListedLast(vulns) == SubSeq(vulns, Len(vulns) - Min(Len(vulns), ListLimit) + 1, Len(vulns))

\* vulns[:10]
Listed(vulns) == SubSeq(vulns, 1, Min(Len(vulns), ListLimit))

RECURSIVE ItemLines(_)
ItemLines(vulns) ==
    IF vulns = <<>> THEN <<>>
    ELSE LET vuln == Head(vulns)
         IN <<Line("item", <<>>, vuln.id)>>
            \o (IF vuln.file_path # <<>> THEN <<Line("file", vuln.file_path, vuln.id)>> ELSE <<>>)
            \o (IF Truthy(vuln.remediation)
                THEN <<Line("fix", vuln.remediation.text, vuln.id)>> ELSE <<>>)
            \o <<Line("blank", <<>>, 0)>>
            \o ItemLines(Tail(vulns))

GroupLines(vulns, severity) ==
    LET g == Group(vulns, severity)
    IN IF g = <<>> THEN <<>>
       ELSE <<Line("group", severity, Len(g)), Line("blank", <<>>, 0)>>
            \o ItemLines(Listed(g))
            \o (IF Len(g) > ListLimit
                THEN <<Line("more", severity, Len(g) - ListLimit), Line("blank", <<>>, 0)>>
                ELSE <<>>)

RECURSIVE SeverityLines(_, _)
\* for severity in self.SEVERITY_ORDER, from the i-th on
SeverityLines(vulns, i) ==
    IF i > Len(SEVERITY_ORDER) THEN <<>>
    ELSE GroupLines(vulns, SEVERITY_ORDER[i]) \o SeverityLines(vulns, i + 1)

RECURSIVE ResultLines(_)
\* for result in report.scan_results
ResultLines(results) ==
    IF results = <<>> THEN <<>>
    ELSE LET result == Head(results)
         IN <<Line("scanner", result.scanner, 0), Line("blank", <<>>, 0)>>
            \o (IF result.vulnerabilities = <<>>
                THEN <<Line("no-vulnerabilities", <<>>, 0), Line("blank", <<>>, 0)>>
                ELSE SeverityLines(result.vulnerabilities, 1))
            \o ResultLines(Tail(results))

TableRows(total) ==
    [i \in 1..Len(SEVERITY_ORDER) |->
        Line("row", SEVERITY_ORDER[i], Get(total, SEVERITY_ORDER[i]))]

RecLines(recs) == [i \in 1..Len(recs) |-> Line(recs[i].rule, <<>>, recs[i].count)]

\* vuln.remediation[:100] raises TypeError on a value that is no str
MarkdownRaises(rep) ==
    \E i \in 1..Len(rep.scan_results), j \in 1..Len(SEVERITY_ORDER) :
        LET g == Listed(Group(rep.scan_results[i].vulnerabilities, SEVERITY_ORDER[j]))
        IN \E k \in 1..Len(g) : ~g[k].remediation.isStr

output_markdown(rep) ==
    <<Line("title", <<>>, 0), Line("summary", <<>>, 0)>>
    \o TableRows(rep.total_vulnerabilities)
    \o <<Line("recommendations", <<>>, 0)>>
    \o RecLines(rep.recommendations)
    \o <<Line("findings", <<>>, 0)>>
    \o ResultLines(rep.scan_results)

NothingEmitted == [format |-> "", lines |-> <<>>, data |-> NoReport]

(***************************************************************************)
(* main                                                                    *)
(***************************************************************************)
\* if not generator.scan_results: ... sys.exit(1)
MainNoResults ==
    /\ pc = "collected"
    /\ scan_results = <<>>
    /\ stderr' = Append(stderr, Diagnostic("No scan results found in input directory", NoPath))
    /\ pc' = "exit1"
    /\ UNCHANGED <<input_dir, scan_results, origin, visited, report, emitted>>

\* report = generator.generate_report()
MainGenerate ==
    /\ pc = "collected"
    /\ scan_results # <<>>
    /\ report' = SecurityReport(scan_results)
    /\ pc' = "render"
    /\ UNCHANGED <<input_dir, scan_results, origin, visited, stderr, emitted>>

\* --output json: output_json(report), then print or write
MainJson ==
    /\ pc = "render"
    /\ emitted' = [format |-> "json", lines |-> <<>>, data |-> report]
    /\ pc' = "exit0"
    /\ UNCHANGED <<input_dir, scan_results, origin, visited, stderr, report>>

\* --output markdown or html: output_markdown(report), then print or write
MainMarkdown ==
    /\ pc = "render"
    /\ \E format \in {"markdown", "html"} :
         IF MarkdownRaises(report)
         THEN /\ pc' = "traceback"
              /\ stderr' = Append(stderr, Diagnostic("TypeError", NoPath))
              /\ emitted' = emitted
         ELSE /\ pc' = "exit0"
              /\ stderr' = stderr
              /\ emitted' = [format |-> format, lines |-> output_markdown(report),
                             data |-> NoReport]
    /\ UNCHANGED <<input_dir, scan_results, origin, visited, report>>

(***************************************************************************)
(* The input documents.  Three classes of input directory are explored:    *)
(*   SmallDirs   up to MaxFiles files of any of the three formats, each    *)
(*               holding one of a few documents: well-formed, undecodable, *)
(*               empty, malformed half-way, loosely typed                  *)
(*   TableDirs   one SARIF file with one result, over every pair of a      *)
(*               level and a security-severity score (in tenths)           *)
(*   BulkDirs    one SARIF file with up to MaxBulk results, so that a      *)
(*               severity group is longer than the renderer lists          *)
(***************************************************************************)
MaxFiles == 2
MaxScore == 100
MaxBulk == 12

Path(dir, name) == [dir |-> dir, name |-> name]
File(path, doc) == [path |-> path, doc |-> doc]

pSemgrep == Path(".", sSemgrep \o sDotSarif)
pSemGrepCI == Path(".", <<"S","e","m","G","r","e","p","-","C","I">> \o sDotSarif)
pCodeql == Path(".", <<"c","o","d","e","q","l">> \o sDotSarif)
pNpm == Path(".", sNpmAudit \o sDotJson)
pNpmSub == Path("web", sNpmAudit \o sDotJson)
pTrivyFs == Path(".", <<"t","r","i","v","y","-","f","s">> \o sDotJson)
pTrivySemgrep == Path(".", sTrivyDash \o sSemgrep \o sDotJson)
pBandit == Path(".", <<"b","a","n","d","i","t">> \o sDotJson)

Paths == {pSemgrep, pSemGrepCI, pCodeql, pNpm, pNpmSub, pTrivyFs, pTrivySemgrep, pBandit}

uriApp == <<"a","p","p",".","p","y">>
tHelp == <<"u","s","e"," ","p","a","r","a","m","s">>
tPkg == <<"l","o","d","a","s","h">>
tImage == <<"a","p","p",":","1">>

\* SARIF documents
Level(t) == [present |-> TRUE, text |-> t]
NoLevel == [present |-> FALSE, text |-> <<>>]
Score(t) == [present |-> TRUE, numeric |-> TRUE, tenths |-> t]
BadScore == [present |-> TRUE, numeric |-> FALSE, tenths |-> 0]
Rule(id, sec, help) == [hasId |-> TRUE, id |-> id, sec |-> sec, help |-> help]
RuleNoId == [hasId |-> FALSE, id |-> 0, sec |-> NoScore, help |-> Text(<<>>)]
Result(ruleId, level, uri) == [isDict |-> TRUE, ruleId |-> ruleId, level |-> level, uri |-> uri]
ResultNotDict == [isDict |-> FALSE, ruleId |-> 0, level |-> NoLevel, uri |-> <<>>]
Run(rules, results) == [rules |-> rules, results |-> results]
SarifDoc(runs) == [decodable |-> TRUE, runs |-> runs]
SarifUndecodable == [decodable |-> FALSE, runs |-> <<>>]

SarifSmall ==
    { SarifUndecodable,
      SarifDoc(<<Run(<<>>, <<>>)>>),
      SarifDoc(<<Run(<<Rule(1, Score(95), Text(tHelp))>>, <<Result(1, Level(sError), uriApp)>>)>>),
      SarifDoc(<<Run(<<>>, <<Result(2, NoLevel, <<>>), Result(3, Level(sNote), uriApp)>>)>>),
      SarifDoc(<<Run(<<Rule(1, NoScore, NonStr)>>, <<Result(1, Level(sError), <<>>)>>)>>),
      SarifDoc(<<Run(<<>>, <<Result(1, Level(sWarning), uriApp), ResultNotDict>>)>>),
      SarifDoc(<<Run(<<>>, <<Result(1, Level(sNote), <<>>)>>),
                 Run(<<RuleNoId>>, <<Result(2, Level(sError), <<>>)>>)>>) }

Levels == {Level(sError), Level(sWarning), Level(sNote), Level(<<"n","o","n","e">>), NoLevel}
Scores == {NoScore, BadScore} \cup {Score(t) : t \in 0..MaxScore}

SarifTable ==
    { SarifDoc(<<Run(<<Rule(1, sec, Text(<<>>))>>, <<Result(rid, level, <<>>)>>)>>) :
        sec \in Scores, level \in Levels, rid \in {1, 2} }

SarifBulk ==
    { SarifDoc(<<Run(<<>>, [i \in 1..n |->
                     Result(i, IF k > 0 /\ i % k = 0 THEN Level(sWarning) ELSE Level(sError),
                            uriApp)])>>) :
        n \in 0..MaxBulk, k \in {0, 2, 7} }

\* npm audit documents
Str(t) == [kind |-> "str", text |-> t]
Absent == [kind |-> "absent", text |-> <<>>]
AList == [kind |-> "list", text |-> <<>>]
ANumber == [kind |-> "num", text |-> <<>>]
FixDict(name) == [isDict |-> TRUE, name |-> name]
FixBool == [isDict |-> FALSE, name |-> Text(<<>>)]
Advisory(id, severity, fix) == [isDict |-> TRUE, id |-> id, severity |-> severity, fix |-> fix]
AdvisoryNotDict == [isDict |-> FALSE, id |-> 0, severity |-> Absent, fix |-> FixBool]
NpmDoc(items) == [decodable |-> TRUE, advisories |-> items]
NpmUndecodable == [decodable |-> FALSE, advisories |-> <<>>]

NpmSmall ==
    { NpmUndecodable,
      NpmDoc(<<>>),
      NpmDoc(<<Advisory(1, Str(sCritical), FixDict(Text(tPkg)))>>),
      NpmDoc(<<Advisory(1, Str(sHigh), FixBool), Advisory(2, Absent, FixDict(Text(<<>>)))>>),
      NpmDoc(<<Advisory(1, Str(sModerate), FixDict(NonStr))>>),
      NpmDoc(<<Advisory(1, Str(sLow), FixBool), AdvisoryNotDict>>),
      NpmDoc(<<Advisory(1, AList, FixBool)>>) }

\* Trivy documents
Fixed(t) == [present |-> TRUE, text |-> t]
NoFixed == [present |-> FALSE, text |-> <<>>]
Entry(id, severity, pkg, fixed) ==
    [isDict |-> TRUE, id |-> id, severity |-> severity, pkg |-> pkg, fixed |-> fixed]
EntryNotDict == [isDict |-> FALSE, id |-> 0, severity |-> Absent, pkg |-> <<>>, fixed |-> NoFixed]
Target(target, vulns) == [target |-> target, vulns |-> vulns]
TrivyDoc(results) == [decodable |-> TRUE, results |-> results]
TrivyUndecodable == [decodable |-> FALSE, results |-> <<>>]

TrivySmall ==
    { TrivyUndecodable,
      TrivyDoc(<<Target(tImage, <<>>)>>),
      TrivyDoc(<<Target(tImage, <<Entry(1, Str(sHIGH), tPkg, Fixed(<<"4",".","1">>))>>)>>),
      TrivyDoc(<<Target(tImage, <<Entry(1, Str(<<"C","r","i","t","i","c","a","l">>), tPkg, NoFixed),
                                  Entry(2, Str(<<"i","n","f","o">>), tPkg, NoFixed)>>)>>),
      TrivyDoc(<<Target(tImage, <<Entry(1, Str(<<"n","e","g","l","i","g","i","b","l","e">>),
                                        tPkg, NoFixed)>>),
                 Target(<<>>, <<Entry(2, Absent, <<>>, NoFixed)>>)>>),
      TrivyDoc(<<Target(tImage, <<Entry(1, Str(sLow), tPkg, NoFixed),
                                  Entry(2, ANumber, tPkg, NoFixed)>>)>>),
      TrivyDoc(<<Target(tImage, <<Entry(1, Str(sLOW), tPkg, NoFixed), EntryNotDict>>)>>) }

\* a file's content has the format its name announces; bandit.json matches no glob
DocsFor(p) ==
    IF MatchSarif(p.name) THEN SarifSmall
    ELSE IF MatchNpm(p.name) THEN NpmSmall
    ELSE IF MatchTrivy(p.name) THEN TrivySmall
    ELSE {SarifDoc(<<>>)}

RECURSIVE FileSets(_)
\* the sets of files with exactly the paths ps
FileSets(ps) ==
    IF ps = {} THEN {{}}
    ELSE LET p == CHOOSE x \in ps : TRUE
         IN { fs \cup {File(p, d)} : fs \in FileSets(ps \ {p}), d \in DocsFor(p) }

Dir(files) == [exists |-> TRUE, files |-> files]
MissingDir == [exists |-> FALSE, files |-> {}]

SmallDirs ==
    { Dir(fs) : fs \in UNION { FileSets(ps) : ps \in {q \in SUBSET Paths : Cardinality(q) <= MaxFiles} } }
TableDirs == { Dir({File(pSemgrep, d)}) : d \in SarifTable }
BulkDirs == { Dir({File(p, d)}) : p \in {pSemgrep, pCodeql}, d \in SarifBulk }

InputDirs == {MissingDir} \cup SmallDirs \cup TableDirs \cup BulkDirs

(***************************************************************************)
(* The program                                                             *)
(***************************************************************************)
Init ==
    /\ input_dir \in InputDirs
    /\ scan_results = <<>>
    /\ origin = <<>>
    /\ visited = {}
    /\ stderr = <<>>
    /\ report = NoReport
    /\ emitted = NothingEmitted
    /\ pc = "main"

Next ==
    \/ CollectEnter
    \/ CollectSarif
    \/ CollectNpm
    \/ CollectTrivy
    \/ CollectReturn
    \/ MainNoResults
    \/ MainGenerate
    \/ MainJson
    \/ MainMarkdown

Spec == Init /\ [][Next]_vars

(***************************************************************************)
(* Properties                                                              *)
(***************************************************************************)
Canonical == {SEVERITY_ORDER[i] : i \in 1..Len(SEVERITY_ORDER)}

\* the number of findings of a list that have a severity
Count(vulns, severity) == Cardinality({j \in 1..Len(vulns) : vulns[j].severity = severity})

SeveritiesOf(vulns) == {vulns[j].severity : j \in 1..Len(vulns)}

RECURSIVE SumValues(_, _)
SumValues(d, keys) ==
    IF keys = {} THEN 0
    ELSE LET k == CHOOSE x \in keys : TRUE IN d[k] + SumValues(d, keys \ {k})

RECURSIVE SumCounts(_, _)
\* the findings of a severity over a sequence of ScanResults, counted one by one
SumCounts(results, severity) ==
    IF results = <<>> THEN 0
    ELSE Count(Head(results).vulnerabilities, severity) + SumCounts(Tail(results), severity)

RECURSIVE SumLens(_)
SumLens(results) ==
    IF results = <<>> THEN 0
    ELSE Len(Head(results).vulnerabilities) + SumLens(Tail(results))

RECURSIVE SumN(_)
SumN(lines) == IF lines = <<>> THEN 0 ELSE Head(lines).n + SumN(Tail(lines))

OfKind(lines, kind) == SelectSeq(lines, LAMBDA l : l.kind = kind)

FileAt(path) == CHOOSE f \in input_dir.files : f.path = path

ParseErrors == {"Error parsing SARIF", "Error parsing npm audit", "Error parsing Trivy"}

\* C1: every Vulnerability an adapter produced has one of the five canonical
\* severities, and so has every key of every summary and of the report's totals.
C1_SeverityCanonical ==
    /\ \A i \in 1..Len(scan_results) :
          /\ SeveritiesOf(scan_results[i].vulnerabilities) \subseteq Canonical
          /\ DOMAIN scan_results[i].summary \subseteq Canonical
    /\ DOMAIN report.total_vulnerabilities \subseteq Canonical

SummaryCounts(r) ==
    /\ \A s \in Canonical \cup SeveritiesOf(r.vulnerabilities) \cup {sUNKNOWN} :
          Get(r.summary, s) = Count(r.vulnerabilities, s)
    /\ SumValues(r.summary, DOMAIN r.summary) = Len(r.vulnerabilities)

\* C2: in every state, during and after collection, each ScanResult's summary
\* gives for every severity the number of its vulnerabilities of that severity
\* (0 for an absent key), and the summary's values sum to the number of its
\* vulnerabilities.
C2_SummaryCounts ==
    /\ \A i \in 1..Len(scan_results) : SummaryCounts(scan_results[i])
    /\ \A i \in 1..Len(report.scan_results) : SummaryCounts(report.scan_results[i])

C2_Witness ==
    \E i \in 1..Len(scan_results) :
        /\ Cardinality(DOMAIN scan_results[i].summary) >= 2
        /\ \E s \in DOMAIN scan_results[i].summary : scan_results[i].summary[s] >= 2

\* C3: in the report generate_report returns, the total of every canonical
\* severity is the sum of that severity's summary entries over the report's
\* ScanResults.
C3_TotalsAreSums ==
    report.built =>
        /\ report.scan_results = scan_results
        /\ \A s \in Canonical :
              LET each == [i \in 1..Len(report.scan_results) |->
                              [n |-> Get(report.scan_results[i].summary, s)]]
              IN Get(report.total_vulnerabilities, s) = SumN(each)

C3_Witness ==
    /\ report.built
    /\ Len(report.scan_results) >= 2
    /\ \E s \in Canonical :
          /\ \A i \in 1..Len(report.scan_results) : Get(report.scan_results[i].summary, s) >= 1
          /\ Get(report.total_vulnerabilities, s) >= 2

HasRec(rule) == \E i \in 1..Len(report.recommendations) : report.recommendations[i].rule = rule

\* C4: the reassurance message is in the recommendations exactly when there is
\* no CRITICAL and no HIGH finding and some scanner name contains "semgrep"
\* in any letter case; it is then the only recommendation, and never stands
\* beside the critical, the high or the SAST coverage message.
C4_ReassuranceExclusive ==
    report.built =>
        /\ HasRec("none-found") <=>
              /\ SumCounts(report.scan_results, sCRITICAL) = 0
              /\ SumCounts(report.scan_results, sHIGH) = 0
              /\ \E i \in 1..Len(report.scan_results) :
                    Contains(Lower(report.scan_results[i].scanner), sSemgrep)
        /\ HasRec("none-found") => report.recommendations = <<Recommendation("none-found", 0)>>
        /\ ~(HasRec("none-found")
             /\ (HasRec("critical") \/ HasRec("high") \/ HasRec("enable-sast")))
        /\ HasRec("critical") <=> SumCounts(report.scan_results, sCRITICAL) > 0
        /\ HasRec("high") <=> SumCounts(report.scan_results, sHIGH) > 0

C4_Witness ==
    /\ report.built
    /\ report.recommendations = <<Recommendation("none-found", 0)>>
    /\ \A i \in 1..Len(report.scan_results) :
          ~Contains(report.scan_results[i].scanner, sSemgrep)

RECURSIVE Flat(_)
\* the results of a SARIF document in document order, each with its run's rules
Flat(runs) ==
    IF runs = <<>> THEN <<>>
    ELSE [i \in 1..Len(Head(runs).results) |->
             [result |-> Head(runs).results[i], rules |-> Head(runs).rules]]
         \o Flat(Tail(runs))

\* the two layers: the score's band when the rule has a score, else the level's entry
TwoLayer(level, sec) ==
    IF sec.present
    THEN CASE sec.tenths >= 90 -> sCRITICAL
           [] sec.tenths < 90 /\ sec.tenths >= 70 -> sHIGH
           [] sec.tenths < 70 /\ sec.tenths >= 40 -> sMEDIUM
           [] sec.tenths < 40 -> sLOW
    ELSE CASE level.present /\ level.text = sError -> sHIGH
           [] level.present /\ level.text = sNote -> sLOW
           [] OTHER -> sMEDIUM

SarifOrigins == {i \in 1..Len(origin) : MatchSarif(origin[i].name)}

\* C5: each Vulnerability of the SARIF adapter has the severity of its result's
\* (level, score) pair: the score's band (>= 9.0 CRITICAL, >= 7.0 HIGH, >= 4.0
\* MEDIUM, else LOW) whenever the matching rule has a numeric score, whatever
\* the level, and otherwise error -> HIGH, warning -> MEDIUM, note -> LOW,
\* anything else -> MEDIUM.
C5_SarifTwoLayer ==
    \A i \in SarifOrigins :
        LET flat == Flat(FileAt(origin[i]).doc.runs)
            vulns == scan_results[i].vulnerabilities
        IN /\ Len(vulns) <= Len(flat)
           /\ \A j \in 1..Len(vulns) :
                 vulns[j].severity =
                     TwoLayer(flat[j].result.level,
                              RulesGet(flat[j].rules, flat[j].result.ruleId).sec)

C5_Witness ==
    \E i \in SarifOrigins :
        LET flat == Flat(FileAt(origin[i]).doc.runs)
            sec == RulesGet(flat[1].rules, flat[1].result.ruleId).sec
        IN /\ flat[1].result.level = Level(sNote)
           /\ sec.present /\ sec.tenths = 90
           /\ scan_results[i].vulnerabilities[1].severity = sCRITICAL

\* C6: every ScanResult, in scan_results at any time and in the report, holds
\* at least one vulnerability; there are never more ScanResults than
\* documents yielded by the three searches, and no document has two.
C6_NoEmptyScanResult ==
    /\ \A i \in 1..Len(scan_results) : scan_results[i].vulnerabilities # <<>>
    /\ \A i \in 1..Len(report.scan_results) : report.scan_results[i].vulnerabilities # <<>>
    /\ Len(scan_results) <= Cardinality(visited)
    /\ Len(origin) = Len(scan_results)
    /\ \A i, j \in 1..Len(origin) : origin[i] = origin[j] => i = j
    /\ \A i \in 1..Len(origin) : \E v \in visited : v[2] = origin[i]

C6_Witness ==
    /\ report.built
    /\ Len(report.scan_results) = 1
    /\ Cardinality(visited) = 2
    /\ stderr = <<>>

\* C7: a document whose parse ended in the adapter's logged error path
\* contributes nothing, no ScanResult comes from it, and every document the
\* searches match has been processed when collection is over.
C7_FailedDocContributesNothing ==
    /\ \A k \in 1..Len(stderr) :
          stderr[k].msg \in ParseErrors =>
              \A i \in 1..Len(origin) : origin[i] # stderr[k].path
    /\ pc = "collected" => LeftSarif = {} /\ LeftNpm = {} /\ LeftTrivy = {}

\* C8: a run ends in failure exactly when no ScanResult was collected, and
\* then nothing was generated or emitted; every other run emits a report and
\* succeeds.
C8_FailsIffNoResults ==
    /\ pc \in {"exit1", "traceback"} => scan_results = <<>> /\ ~report.built
                                        /\ emitted = NothingEmitted
    /\ pc = "exit0" => scan_results # <<>> /\ report.built /\ emitted # NothingEmitted
    /\ pc \in {"render"} => scan_results # <<>>

Markdown == emitted.format \in {"markdown", "html"}

\* the places of the "### scanner" lines of the emitted document
ScannerAt == {i \in 1..Len(emitted.lines) : emitted.lines[i].kind = "scanner"}

\* the lines of the k-th scanner section, its header included
Section(k) ==
    LET first == CHOOSE i \in ScannerAt : Cardinality({j \in ScannerAt : j < i}) = k - 1
        later == {i \in ScannerAt : i > first}
        last == IF later = {} THEN Len(emitted.lines)
                ELSE (CHOOSE i \in later : \A j \in later : i <= j) - 1
    IN SubSeq(emitted.lines, first, last)

\* the lines of the group of a severity in a section, from its header on
GroupPart(sec, severity) ==
    LET at == CHOOSE i \in 1..Len(sec) : sec[i].kind = "group" /\ sec[i].text = severity
        later == {i \in (at + 1)..Len(sec) : sec[i].kind = "group"}
        last == IF later = {} THEN Len(sec)
                ELSE (CHOOSE i \in later : \A j \in later : i <= j) - 1
    IN SubSeq(sec, at, last)

\* the ids of the findings of a severity, in source order
IdsOf(vulns, severity) ==
    LET g == SelectSeq(vulns, LAMBDA v : v.severity = severity)
    IN [i \in 1..Len(g) |-> g[i].id]

SectionAsClaimed(sec, r) ==
    LET heads == OfKind(sec, "group")
        present == SelectSeq(SEVERITY_ORDER, LAMBDA s : Count(r.vulnerabilities, s) > 0)
    IN /\ sec[1] = Line("scanner", r.scanner, 0)
       /\ [i \in 1..Len(heads) |-> heads[i].text] = present
       /\ \A i \in 1..Len(present) :
             LET s == present[i]
                 n == Count(r.vulnerabilities, s)
                 part == GroupPart(sec, s)
                 items == OfKind(part, "item")
                 shown == IF n <= 10 THEN n ELSE 10
             IN /\ heads[i].n = n
                /\ Len(items) = shown
                /\ [j \in 1..Len(items) |-> items[j].n]
                      = SubSeq(IdsOf(r.vulnerabilities, s), 1, shown)
                /\ OfKind(part, "more")
                      = IF n > 10 THEN <<Line("more", s, n - 10)>> ELSE <<>>

\* C9: in the Markdown document each scanner section has one group per
\* severity that occurs, in the order CRITICAL, HIGH, MEDIUM, LOW, INFO; the
\* header of a group of n findings shows n, min(n, 10) findings are listed,
\* the first ones in source order, and "...and N more" with N = n - 10 is
\* there if and only if n > 10.
C9_GroupsListFirstTen ==
    Markdown =>
        /\ Cardinality(ScannerAt) = Len(report.scan_results)
        /\ \A k \in 1..Len(report.scan_results) :
              SectionAsClaimed(Section(k), report.scan_results[k])

C9_Witness ==
    /\ Markdown
    /\ \E i \in 1..Len(emitted.lines) :
          emitted.lines[i].kind = "more" /\ emitted.lines[i].n = 1
    /\ Cardinality({i \in 1..Len(emitted.lines) : emitted.lines[i].kind = "group"}) = 2

\* C10: every finding of the report is counted in the Markdown document: the
\* five rows of the summary table sum to the number of vulnerabilities of all
\* ScanResults, and the group headers of each scanner section sum to the
\* number of vulnerabilities of that ScanResult.
C10_EveryFindingCounted ==
    Markdown =>
        /\ SumN(OfKind(emitted.lines, "row")) = SumLens(report.scan_results)
        /\ \A k \in 1..Len(report.scan_results) :
              SumN(OfKind(Section(k), "group")) = Len(report.scan_results[k].vulnerabilities)
=============================================================================
